---- MODULE Spec2Model ----
(***************************************************************************)
(* Model of scripts/verify_binance_gaps.py: gap selection, timestamp       *)
(* resolution, window decomposition, archive fetch with an on-disk cache,  *)
(* windowed scan and run totals.                                           *)
(*                                                                         *)
(* Python's None is the empty tuple and a present value v is <<v>>, so     *)
(* that optional values compare with = .  Text is a tuple of one-character *)
(* strings.  Dates are day numbers since 1970-01-01 inside the code and    *)
(* <<year, month, day>> once formatted.                                    *)
(***************************************************************************)
EXTENDS Integers, Sequences, FiniteSets, TLC

VARIABLES
    \* main(): one run of the verifier
    args, pc, rows, pos, inspected, skipped, total_est_miss,
    total_binance_trades, gap, cache, out, outcomes, fetched, scanned,
    \* iter_gap_rows() called twice with one query
    sel_index, sel_args, sel_results, global_rng,
    \* iter_dates() on its own
    it_start, it_end, it_dates,
    \* scan_zip_for_window() on its own
    sc_rows, sc_start, sc_end, sc_ts_index, sc_state,
    \* download_zip() called again and again on one cache directory
    f_cache, f_last, f_count

mainVars == <<args, pc, rows, pos, inspected, skipped, total_est_miss,
              total_binance_trades, gap, cache, out, outcomes, fetched, scanned>>
selVars == <<sel_index, sel_args, sel_results, global_rng>>
itVars == <<it_start, it_end, it_dates>>
scVars == <<sc_rows, sc_start, sc_end, sc_ts_index, sc_state>>
fVars == <<f_cache, f_last, f_count>>
vars == <<mainVars, selVars, itVars, scVars, fVars>>

----------------------------------------------------------------------------
\* Optional values and small helpers

None == <<>>
Some(v) == <<v>>
IsNone(o) == o = <<>>
Val(o) == o[1]

Range(s) == {s[i] : i \in 1..Len(s)}
Min2(a, b) == IF a <= b THEN a ELSE b

RECURSIVE SumSeq(_)
SumSeq(s) == IF s = <<>> THEN 0 ELSE Head(s) + SumSeq(Tail(s))

----------------------------------------------------------------------------
\* int(text): decimal parse of a token; None stands for ValueError

Digits == <<"0", "1", "2", "3", "4", "5", "6", "7", "8", "9">>
IsDigit(c) == \E d \in 1..10 : Digits[d] = c
DigitVal(c) == (CHOOSE d \in 1..10 : Digits[d] = c) - 1

RECURSIVE DigitsValue(_, _)
DigitsValue(t, acc) ==
    IF t = <<>> THEN acc ELSE DigitsValue(Tail(t), 10 * acc + DigitVal(Head(t)))

\* surrounding whitespace is ignored and one sign is allowed, as int() does
RECURSIVE LStrip(_)
LStrip(t) == IF t # <<>> /\ Head(t) \in {" ", "\n"} THEN LStrip(Tail(t)) ELSE t

RECURSIVE RStrip(_)
RStrip(line) ==
    IF line # <<>> /\ line[Len(line)] \in {" ", "\n"}
    THEN RStrip(SubSeq(line, 1, Len(line) - 1))
    ELSE line

ParseInt(t) ==
    LET core == LStrip(RStrip(t))
        signed == core # <<>> /\ Head(core) \in {"-", "+"}
        body == IF signed THEN Tail(core) ELSE core
    IN  IF body = <<>> \/ \E i \in 1..Len(body) : ~IsDigit(body[i])
        THEN None
        ELSE Some(IF signed /\ Head(core) = "-" THEN 0 - DigitsValue(body, 0)
                  ELSE DigitsValue(body, 0))

\* str(n) for n >= 0, the inverse used to write test archives
RECURSIVE Str(_)
Str(n) == IF n < 10 THEN <<Digits[n + 1]>> ELSE Str(n \div 10) \o <<Digits[(n % 10) + 1]>>

----------------------------------------------------------------------------
\* iter_dates: UTC calendar days of a millisecond window

MsPerDay == 86400000

\* dt.datetime.utcfromtimestamp(ms / 1000).date(), as a day number
UtcDate(ms) == ms \div MsPerDay

\* date.strftime("%Y-%m-%d"): the civil date of a day number
Strftime(day) ==
    LET z == day + 719468
        era == z \div 146097
        doe == z - era * 146097
        yoe == (doe - doe \div 1460 + doe \div 36524 - doe \div 146096) \div 365
        doy == doe - (365 * yoe + yoe \div 4 - yoe \div 100)
        mp == (5 * doy + 2) \div 153
        d == doy - (153 * mp + 2) \div 5 + 1
        m == IF mp < 10 THEN mp + 3 ELSE mp - 9
        y == yoe + era * 400 + (IF m <= 2 THEN 1 ELSE 0)
    IN  <<y, m, d>>

\* the loop test of iter_dates: while current <= end_date
DateLoopExclusive(current, end_date) == current < end_date
DateLoopGuard(current, end_date) == current <= end_date

RECURSIVE DatesFrom(_, _)
DatesFrom(current, end_date) ==
    IF DateLoopGuard(current, end_date)
    THEN <<Strftime(current)>> \o DatesFrom(current + 1, end_date)
    ELSE <<>>

iter_dates(start_ms, end_ms) == DatesFrom(UtcDate(start_ms), UtcDate(end_ms))

----------------------------------------------------------------------------
\* scan_zip_for_window: count the rows of an archive inside a window

\* text.split(","): always at least one part
RECURSIVE SplitAcc(_, _, _)
SplitAcc(text, cur, acc) ==
    IF text = <<>> THEN Append(acc, cur)
    ELSE IF Head(text) = "," THEN SplitAcc(Tail(text), <<>>, Append(acc, cur))
    ELSE SplitAcc(Tail(text), Append(cur, Head(text)), acc)

SplitComma(text) == SplitAcc(text, <<>>, <<>>)

\* DATASET_TS_INDEX
Datasets == {"spot-trades", "futures-um-trades", "spot-agg", "futures-um-agg"}
DATASET_TS_INDEX(dataset) == IF dataset \in {"spot-trades", "futures-um-trades"} THEN 4 ELSE 5

\* count = 0; first_ts = None; last_ts = None; no line read yet
ScanStart == [count |-> 0, first_ts |-> None, last_ts |-> None, read |-> 0, done |-> FALSE]

\* the test that ends the scan: if ts > end_ms: break
PastWindowInclusive(ts, end_ms) == ts >= end_ms
PastWindow(ts, end_ms) == ts > end_ms

\* one iteration of "for line in text" (Python's parts[ts_index] is parts[ts_index + 1] here)
ScanLine(st, line, start_ms, end_ms, ts_index) ==
    LET parts == SplitComma(RStrip(line))   \* line.rstrip().split(",")
        st1 == [st EXCEPT !.read = @ + 1]
    IN  IF Len(parts) <= ts_index THEN st1
        ELSE LET ts == ParseInt(parts[ts_index + 1])
             IN  IF IsNone(ts) THEN st1
                 ELSE IF Val(ts) < start_ms THEN st1
                 ELSE IF PastWindow(Val(ts), end_ms) THEN [st1 EXCEPT !.done = TRUE]
                 ELSE [st1 EXCEPT !.count = @ + 1,
                                  !.first_ts = IF IsNone(@) THEN ts ELSE @,
                                  !.last_ts = ts]

RECURSIVE ScanLines(_, _, _, _, _)
ScanLines(st, lines, start_ms, end_ms, ts_index) ==
    IF st.done \/ st.read >= Len(lines) THEN st
    ELSE ScanLines(ScanLine(st, lines[st.read + 1], start_ms, end_ms, ts_index),
                   lines, start_ms, end_ms, ts_index)

\* An archive on disk is [ok |-> TRUE, members |-> <<lines, ...>>], or
\* [ok |-> FALSE, members |-> <<>>] for a file zipfile.ZipFile cannot open
\* (empty or cut short).
ZipOpens(archive) == archive.ok

\* the whole function, for an archive that opens: <<count, first_ts, last_ts>>
scan_zip_for_window(archive, start_ms, end_ms, ts_index) ==
    IF archive.members = <<>> THEN <<0, None, None>>
    ELSE LET st == ScanLines(ScanStart, archive.members[1], start_ms, end_ms, ts_index)
         IN  <<st.count, st.first_ts, st.last_ts>>


----------------------------------------------------------------------------
\* iter_gap_rows: the gap selector
\*
\* An index row is a record id, event_type, collector, exchange, symbol,
\* path, start_line, gap_ms, gap_miss, gap_end_ts; the last three are
\* optional (SQL NULL is None).  The query is the record of parsed arguments.

\* WHERE e.event_type = 'gap' AND e.gap_ms IS NOT NULL AND e.gap_miss IS NOT NULL
\*   [AND e.collector = ...] [AND e.exchange = ...] [AND e.symbol = ...]
\*   [AND e.gap_miss >= :min_miss] [AND e.gap_ms >= :min_gap_ms]
WhereClause(r, a) ==
    /\ r.event_type = "gap"
    /\ ~IsNone(r.gap_ms)
    /\ ~IsNone(r.gap_miss)
    /\ (~IsNone(a.collector) => r.collector = Val(a.collector))
    /\ (~IsNone(a.exchange) => r.exchange = Val(a.exchange))
    /\ (~IsNone(a.symbol) => r.symbol = Val(a.symbol))
    /\ (a.min_miss # 0 => Val(r.gap_miss) >= a.min_miss)
    /\ (a.min_gap_ms # 0 => Val(r.gap_ms) >= a.min_gap_ms)

\* the ORDER BY expressions, all descending
OrderKey(r, order) ==
    CASE order = "gap_miss" -> Val(r.gap_miss)
      [] order = "gap_ms" -> Val(r.gap_ms)
      [] order = "hybrid" -> Val(r.gap_ms) * Val(r.gap_miss)

\* ORDER BY key DESC over a table scanned by id: equal keys keep id order
RECURSIVE OrderByDesc(_, _)
OrderByDesc(S, order) ==
    IF S = {} THEN <<>>
    ELSE LET first == CHOOSE r \in S : \A q \in S :
                          \/ OrderKey(r, order) > OrderKey(q, order)
                          \/ OrderKey(r, order) = OrderKey(q, order) /\ r.id <= q.id
         IN  <<first>> \o OrderByDesc(S \ {first}, order)

\* LIMIT :limit OFFSET :offset (a negative limit is no limit, a negative offset is 0)
SqlLimitOffset(s, limit, offset) ==
    LET from == IF offset < 0 THEN 0 ELSE offset
        rest == SubSeq(s, from + 1, Len(s))
    IN  IF limit < 0 THEN rest ELSE SubSeq(rest, 1, Min2(limit, Len(rest)))

\* rows[k:]
PySliceFrom(s, k) ==
    LET from == IF k >= 0 THEN k ELSE (IF Len(s) + k < 0 THEN 0 ELSE Len(s) + k)
    IN  SubSeq(s, from + 1, Len(s))

\* if args.offset: rows = rows[args.offset:]
RowsAfterOffsetKept(rows_, offset) == rows_
RowsAfterOffset(rows_, offset) == IF offset # 0 THEN PySliceFrom(rows_, offset) ELSE rows_

\* random.Random: a small linear congruential generator stands for the
\* Mersenne twister; randbelow(n) is the next state reduced mod n
RngNext(st) == (33 * st + 17) % 251
RandomSeeded(seed) == seed % 251

\* rng = random.Random(args.seed): a generator of its own, seeded by the query
SelectorRngGlobal(seed) == global_rng
SelectorRng(seed) == RandomSeeded(seed)

\* rng.sample(population, k): k draws from a shrinking pool
RECURSIVE SampleLoop(_, _, _, _, _)
SampleLoop(pool_, i, k, st, result) ==
    IF i = k THEN result
    ELSE LET n == Len(pool_)
             st1 == RngNext(st)
             j == st1 % (n - i)
         IN  SampleLoop([pool_ EXCEPT ![j + 1] = pool_[n - i]], i + 1, k, st1,
                        Append(result, pool_[j + 1]))

Sample(population, k, st) == SampleLoop(population, 0, k, st, <<>>)

\* the candidate pool of random mode: ORDER BY e.gap_miss DESC LIMIT :pool
PoolRows(index, a) ==
    SqlLimitOffset(OrderByDesc({r \in index : WhereClause(r, a)}, "gap_miss"), a.pool, 0)

iter_gap_rows(index, a) ==
    IF a.order = "random"
    THEN LET pool_ == PoolRows(index, a)
             rest == RowsAfterOffset(pool_, a.offset)
         IN  IF pool_ = <<>> THEN <<>>
             ELSE IF rest = <<>> THEN <<>>
             ELSE IF a.limit <= 0 THEN rest
             ELSE Sample(rest, Min2(a.limit, Len(rest)), SelectorRng(a.seed))
    ELSE SqlLimitOffset(OrderByDesc({r \in index : WhereClause(r, a)}, a.order),
                        IF a.limit <= 0 THEN 0 - 1 ELSE a.limit, a.offset)


----------------------------------------------------------------------------
\* read_line_timestamp: the end timestamp from the collector's own file

\* line.strip().split(): the first whitespace-delimited token, None if there is none
RECURSIVE TakeToken(_)
TakeToken(text) ==
    IF text = <<>> \/ Head(text) \in {" ", "\n"} THEN <<>>
    ELSE <<Head(text)>> \o TakeToken(Tail(text))

RECURSIVE FirstToken(_)
FirstToken(text) ==
    IF text = <<>> THEN None
    ELSE IF Head(text) \in {" ", "\n"} THEN FirstToken(Tail(text))
    ELSE Some(TakeToken(text))

\* file is None (FileNotFoundError) or Some(lines); line_number counts from 1
read_line_timestamp(file, line_number) ==
    IF IsNone(file) THEN None
    ELSE IF line_number \notin 1..Len(Val(file)) THEN None
    ELSE LET tok == FirstToken(Val(file)[line_number])
         IN  IF IsNone(tok) THEN None ELSE ParseInt(Val(tok))

----------------------------------------------------------------------------
\* download_zip: the archive cache

\* DATASET_URLS[dataset].format(symbol=..., date=...)
DATASET_URLS(dataset, symbol, date) ==
    [market |-> IF dataset \in {"spot-trades", "spot-agg"} THEN "spot" ELSE "futures/um",
     kind |-> IF dataset \in {"spot-trades", "futures-um-trades"} THEN "trades" ELSE "aggTrades",
     symbol |-> symbol,
     date |-> date]

\* url.rsplit("/", 1)[-1]: {symbol}-{kind}-{date}.zip
FileName(url) == <<url.symbol, url.kind, url.date>>

CorruptArchive == [ok |-> FALSE, members |-> <<>>]

\* what the network can do to a download that is attempted
NetOutcomes == {"ok", "open_fails", "read_fails"}

\* download_zip(url, cache_dir) on cache directory c, with the network
\* behaving as net and the server holding archive `published` at url:
\* result is the cached path (the file name) or None
download_zip(url, c, net, published) ==
    LET name == FileName(url)
    IN  IF name \in DOMAIN c THEN [result |-> Some(name), cache |-> c, tried |-> FALSE]
        ELSE IF net = "ok"
        THEN [result |-> Some(name),
              cache |-> [n \in DOMAIN c \cup {name} |-> IF n = name THEN published ELSE c[n]],
              tried |-> TRUE]
        ELSE IF net = "open_fails"
        THEN [result |-> None, cache |-> c, tried |-> TRUE]
        ELSE [result |-> None,
              cache |-> [n \in DOMAIN c \cup {name} |-> IF n = name THEN CorruptArchive ELSE c[n]],
              tried |-> TRUE]

----------------------------------------------------------------------------
\* report lines

\* fmt_ratio: "n/a", or actual / estimated to four decimals (in 1/10000ths)
fmt_ratio(actual, estimated) ==
    IF estimated <= 0 THEN <<"n/a">>
    ELSE <<(2 * 10000 * actual + estimated) \div (2 * estimated), "x">>

format_gap_summary(gap_id, gap_miss, total, ratio) == <<"gap", gap_id, gap_miss, total, ratio>>


----------------------------------------------------------------------------
\* The world one run sees: the index, the collector's files, the archive server

RECURSIVE JoinComma(_)
JoinComma(fields) ==
    IF Len(fields) = 1 THEN Head(fields)
    ELSE Head(fields) \o <<",">> \o JoinComma(Tail(fields))

Day(k) == k * MsPerDay
Noon == MsPerDay \div 2

GapRow(id, gap_ms, gap_miss, gap_end_ts, path, start_line) ==
    [id |-> id, event_type |-> "gap", collector |-> "main", exchange |-> "BINANCE",
     symbol |-> "BTCUSDT", path |-> path, start_line |-> start_line,
     gap_ms |-> gap_ms, gap_miss |-> gap_miss, gap_end_ts |-> gap_end_ts]

\* events JOIN roots: gaps inside one day, across one midnight, over three
\* and four calendar days, with the end timestamp only in the file, with
\* no usable file, with a negative gap_ms; and rows that are not eligible
MainIndex ==
    { GapRow(1, Some(120000), Some(5), Some(Day(1) + Noon + 60000), "2021/a.gz", 1),
      GapRow(2, Some(1000), Some(3), Some(Day(2) + 500), "2021/a.gz", 1),
      GapRow(3, Some(3 * MsPerDay), Some(4), Some(Day(4) + 500), "2021/a.gz", 1),
      GapRow(4, Some(5000), Some(4), None, "2021/missing", 1),
      GapRow(5, Some(60000), Some(2), None, "2021/a.gz", 2),
      GapRow(6, Some(2 * MsPerDay), Some(2), Some(Day(3) + 500), "2021/a.gz", 1),
      GapRow(7, Some(0 - MsPerDay), Some(1), Some(Day(2) + 500), "2021/a.gz", 1),
      GapRow(8, Some(7000), Some(0), None, "2021/a.gz", 1),
      [GapRow(9, Some(1000), Some(9), Some(Day(1)), "2021/a.gz", 1) EXCEPT !.event_type = "file"],
      GapRow(10, Some(1000), None, Some(Day(1)), "2021/a.gz", 1),
      GapRow(11, None, Some(9), Some(Day(1)), "2021/a.gz", 1) }

\* the collector's files, by root_path / relative_path
FileAt(path) ==
    IF path = "2021/a.gz"
    THEN Some(<< <<"t", "s", " ", "x", "\n">>,
                 <<" ", " ">> \o Str(Day(1) + Noon + 60000) \o <<" ", "1", " ", "2", "\n">>,
                 <<"\n">> >>)
    ELSE None

\* times of day of the trades the exchange published, the same every day
TradeOffsets(market) ==
    IF market = "spot" THEN <<0, 500, Noon, Noon, Noon + 30000, MsPerDay - 500>>
    ELSE <<500, Noon, MsPerDay - 500>>

TradeLine(kind, n, ts) ==
    IF kind = "trades"
    THEN JoinComma(<<Str(n), <<"9">>, <<"1">>, <<"9">>, Str(ts), <<"T">>, <<"T">>>>) \o <<"\n">>
    ELSE JoinComma(<<Str(n), <<"9">>, <<"1">>, Str(n), Str(n), Str(ts), <<"T">>>>) \o <<"\n">>

\* the archive at url: one member, a header line (futures only), one line
\* per trade, and a last line that was cut short
Published(url) ==
    LET day == CHOOSE k \in (0 - 2)..24 : Strftime(k) = url.date
        offs == TradeOffsets(url.market)
        header == IF url.market = "spot" THEN <<>>
                  ELSE << JoinComma(<< <<"i", "d">>, <<"p">>, <<"q">>, <<"q">>, <<"t">>, <<"t">>, <<"m">> >>) \o <<"\n">> >>
    IN  [ok |-> TRUE,
         members |-> << header
                        \o [i \in 1..Len(offs) |-> TradeLine(url.kind, i, Day(day) + offs[i])]
                        \o << JoinComma(<<Str(7), <<"9">>>>) >> >>]


----------------------------------------------------------------------------
\* main(): one run

MaxWindowDays == 3

\* if len(dates) > 3: the window is not verified
WindowTooLargeLoose(dates) == Len(dates) > MaxWindowDays + 1
WindowTooLarge(dates) == Len(dates) > MaxWindowDays

NoGap == [id |-> 0, gap_ms |-> 0, gap_miss |-> 0, start_ms |-> 0, end_ms |-> 0,
          dates |-> <<>>, day |-> 0, total |-> 0, first_hit |-> None,
          last_hit |-> None, missing_days |-> 0, from_file |-> FALSE]

Outcome(row, kind, reason, total, ndays) ==
    [id |-> row.id, kind |-> kind, reason |-> reason, reference_total |-> total,
     gap_miss |-> Val(row.gap_miss), days |-> ndays]

\* parse_args, the self test, the symbol check, the selector call
Main_Start ==
    /\ pc = "start"
    /\ IF args.self_test
       THEN /\ out' = Append(out, <<"self-test ok">>)
            /\ pc' = "done"
            /\ UNCHANGED <<rows, pos, inspected, skipped, total_est_miss, total_binance_trades>>
       ELSE IF IsNone(args.binance_symbol) /\ IsNone(args.symbol)
       THEN /\ out' = Append(out, <<"Missing --symbol or --binance-symbol.">>)
            /\ pc' = "config_error"
            /\ UNCHANGED <<rows, pos, inspected, skipped, total_est_miss, total_binance_trades>>
       ELSE /\ rows' = iter_gap_rows(MainIndex, args)
            /\ IF rows' = <<>>
               THEN /\ out' = Append(out, <<"No gap events matched the filters.">>)
                    /\ pc' = "done"
                    /\ UNCHANGED <<pos, inspected, skipped, total_est_miss, total_binance_trades>>
               ELSE /\ pc' = "rows"
                    /\ pos' = 1
                    /\ inspected' = 0 /\ skipped' = 0
                    /\ total_est_miss' = 0 /\ total_binance_trades' = 0
                    /\ UNCHANGED out
    /\ UNCHANGED <<args, gap, cache, outcomes, fetched, scanned>>

\* for row in rows: resolve the end timestamp, derive the window and its days
Main_Row ==
    /\ pc = "rows"
    /\ pos <= Len(rows)
    /\ LET row == rows[pos]
           from_file == IsNone(row.gap_end_ts)
           ts == IF from_file THEN read_line_timestamp(FileAt(row.path), row.start_line)
                 ELSE row.gap_end_ts
       IN  IF IsNone(ts)
           THEN /\ out' = Append(out, <<"unreadable", row.id, row.start_line, row.path>>)
                /\ outcomes' = Append(outcomes, Outcome(row, "Skipped", "unresolvable-timestamp", 0, 0))
                /\ pos' = pos + 1
                /\ UNCHANGED <<pc, gap, skipped>>
           ELSE LET gap_ms == Val(row.gap_ms)
                    gap_miss == Val(row.gap_miss)
                    start_ms == Val(ts) - gap_ms
                    end_ms == Val(ts)
                    dates == iter_dates(start_ms, end_ms)
                IN  IF WindowTooLarge(dates)
                    THEN /\ out' = out \o << format_gap_summary(row.id, gap_miss, 0, <<"n/a">>),
                                             <<"skip days", Len(dates)>> >>
                         /\ skipped' = skipped + 1
                         /\ outcomes' = Append(outcomes,
                                Outcome(row, "Skipped", "window-too-large", 0, Len(dates)))
                         /\ pos' = pos + 1
                         /\ UNCHANGED <<pc, gap>>
                    ELSE /\ gap' = [id |-> row.id, gap_ms |-> gap_ms, gap_miss |-> gap_miss,
                                    start_ms |-> start_ms, end_ms |-> end_ms, dates |-> dates,
                                    day |-> 1, total |-> 0, first_hit |-> None,
                                    last_hit |-> None, missing_days |-> 0,
                                    from_file |-> from_file]
                         /\ pc' = "days"
                         /\ UNCHANGED <<out, outcomes, skipped, pos>>
    /\ UNCHANGED <<args, rows, inspected, total_est_miss, total_binance_trades,
                   cache, fetched, scanned>>

\* for day in dates: fetch the day's archive and scan it
Main_Day ==
    /\ pc = "days"
    /\ gap.day <= Len(gap.dates)
    /\ LET date == gap.dates[gap.day]
           binance_symbol == IF IsNone(args.binance_symbol) THEN Val(args.symbol)
                             ELSE Val(args.binance_symbol)
           url == DATASET_URLS(args.dataset, binance_symbol, date)
       IN  \E net \in IF FileName(url) \in DOMAIN cache THEN {"ok"} ELSE NetOutcomes :
           LET dl == download_zip(url, cache, net, Published(url))
           IN  /\ cache' = dl.cache
               /\ fetched' = fetched \cup {<<pos, date, ~IsNone(dl.result)>>}
               /\ IF IsNone(dl.result)
                  THEN /\ out' = Append(out, <<"download failed", url>>)
                       /\ gap' = [gap EXCEPT !.missing_days = @ + 1, !.day = @ + 1]
                       /\ UNCHANGED <<pc, scanned>>
                  ELSE IF ~ZipOpens(dl.cache[Val(dl.result)])
                  THEN \* zipfile.BadZipFile is not caught anywhere: the run ends here
                       /\ pc' = "crashed"
                       /\ UNCHANGED <<out, gap, scanned>>
                  ELSE LET res == scan_zip_for_window(dl.cache[Val(dl.result)], gap.start_ms,
                                       gap.end_ms, DATASET_TS_INDEX(args.dataset))
                           count == res[1]
                           first_ts == res[2]
                           last_ts == res[3]
                           first_hit == IF count # 0 /\ (IsNone(gap.first_hit) \/
                                              (~IsNone(first_ts) /\ Val(first_ts) < Val(gap.first_hit)))
                                        THEN first_ts ELSE gap.first_hit
                           last_hit == IF count # 0 /\ (IsNone(gap.last_hit) \/
                                              (~IsNone(last_ts) /\ Val(last_ts) > Val(gap.last_hit)))
                                       THEN last_ts ELSE gap.last_hit
                       IN  /\ gap' = [gap EXCEPT !.total = @ + count, !.first_hit = first_hit,
                                                 !.last_hit = last_hit, !.day = @ + 1]
                           /\ scanned' = scanned \cup {<<pos, date, TRUE>>}
                           /\ UNCHANGED <<pc, out>>
    /\ UNCHANGED <<args, rows, pos, inspected, skipped, total_est_miss,
                   total_binance_trades, outcomes>>

\* total_est_miss += gap_miss; total_binance_trades += total
AddToTotalsSwapped(est, trades, g) == <<est + g.total, trades + g.gap_miss>>
AddToTotals(est, trades, g) == <<est + g.gap_miss, trades + g.total>>

\* after the day loop: the gap is skipped for missing days, or inspected
Main_EndGap ==
    /\ pc = "days"
    /\ gap.day > Len(gap.dates)
    /\ LET row == rows[pos]
       IN  IF gap.missing_days # 0
           THEN /\ out' = out \o << format_gap_summary(gap.id, gap.gap_miss, 0, <<"n/a">>),
                                    <<"skip missing_days", gap.missing_days>> >>
                /\ skipped' = skipped + 1
                /\ outcomes' = Append(outcomes,
                       Outcome(row, "Skipped", "missing-days", 0, Len(gap.dates)))
                /\ UNCHANGED <<inspected, total_est_miss, total_binance_trades>>
           ELSE /\ out' = out
                     \o << format_gap_summary(gap.id, gap.gap_miss, gap.total,
                                              fmt_ratio(gap.total, gap.gap_miss)) >>
                     \o (IF gap.from_file THEN << <<"source", row.start_line, row.path>> >> ELSE <<>>)
                     \o << <<"window", gap.start_ms, gap.end_ms, gap.gap_ms,
                             gap.first_hit, gap.last_hit>> >>
                /\ inspected' = inspected + 1
                /\ total_est_miss' = AddToTotals(total_est_miss, total_binance_trades, gap)[1]
                /\ total_binance_trades' = AddToTotals(total_est_miss, total_binance_trades, gap)[2]
                /\ outcomes' = Append(outcomes,
                       Outcome(row, "Inspected", "", gap.total, Len(gap.dates)))
                /\ UNCHANGED skipped
    /\ pos' = pos + 1
    /\ pc' = "rows"
    /\ gap' = NoGap
    /\ UNCHANGED <<args, rows, cache, fetched, scanned>>

\* after the last row: the summary line, return 0
Main_Summary ==
    /\ pc = "rows"
    /\ pos > Len(rows)
    /\ out' = Append(out, <<"summary", Len(rows), inspected, skipped, total_est_miss,
                            total_binance_trades,
                            fmt_ratio(total_binance_trades, total_est_miss)>>)
    /\ pc' = "done"
    /\ UNCHANGED <<args, rows, pos, inspected, skipped, total_est_miss,
                   total_binance_trades, gap, cache, outcomes, fetched, scanned>>


----------------------------------------------------------------------------
\* Specification of one run

MaxLimit == 3
MaxOffset == 2
MaxSeed == 1
DefaultPool == 1000

Orders == {"random", "gap_miss", "gap_ms", "hybrid"}

Query(order, limit, offset, pool_, seed, min_miss, symbol, binance_symbol, dataset, self_test) ==
    [collector |-> None, exchange |-> None, symbol |-> symbol,
     binance_symbol |-> binance_symbol, dataset |-> dataset, limit |-> limit,
     min_miss |-> min_miss, min_gap_ms |-> 0, order |-> order, offset |-> offset,
     pool |-> pool_, seed |-> seed, self_test |-> self_test]

\* the command lines of the runs that are checked
MainQueries ==
    { Query(o, l, f, DefaultPool, s, 0, Some("BTCUSDT"), None, d, FALSE) :
        o \in Orders, l \in 0..MaxLimit, f \in 0..MaxOffset, s \in 0..MaxSeed,
        d \in {"spot-trades", "futures-um-agg"} }
    \cup { Query("random", 5, 0, DefaultPool, 1337, 0, y[1], y[2], "spot-trades", y[3]) :
        y \in { <<None, None, FALSE>>, <<None, None, TRUE>>,
                <<None, Some("BTCUSDT"), FALSE>>, <<Some("ETHUSDT"), None, FALSE>> } }

EmptyCache == [n \in {} |-> CorruptArchive]

SelIdle ==
    /\ sel_index = {} /\ sel_args = Query("random", 0, 0, 0, 0, 0, None, None, "spot-trades", FALSE)
    /\ sel_results = <<>> /\ global_rng = 0
ItIdle == it_start = 0 /\ it_end = 0 /\ it_dates = None
ScIdle ==
    sc_rows = <<>> /\ sc_start = 0 /\ sc_end = 0 /\ sc_ts_index = 0 /\ sc_state = ScanStart
FIdle == f_cache = EmptyCache /\ f_last = None /\ f_count = 0
MainIdle ==
    /\ args = Query("random", 0, 0, 0, 0, 0, None, None, "spot-trades", FALSE)
    /\ pc = "idle" /\ rows = <<>> /\ pos = 0
    /\ inspected = 0 /\ skipped = 0 /\ total_est_miss = 0 /\ total_binance_trades = 0
    /\ gap = NoGap /\ cache = EmptyCache /\ out = <<>> /\ outcomes = <<>>
    /\ fetched = {} /\ scanned = {}

Init ==
    /\ args \in MainQueries
    /\ pc = "start"
    /\ rows = <<>> /\ pos = 0
    /\ inspected = 0 /\ skipped = 0 /\ total_est_miss = 0 /\ total_binance_trades = 0
    /\ gap = NoGap /\ cache = EmptyCache /\ out = <<>> /\ outcomes = <<>>
    /\ fetched = {} /\ scanned = {}
    /\ SelIdle /\ ItIdle /\ ScIdle /\ FIdle

Next ==
    \/ Main_Start /\ UNCHANGED <<selVars, itVars, scVars, fVars>>
    \/ Main_Row /\ UNCHANGED <<selVars, itVars, scVars, fVars>>
    \/ Main_Day /\ UNCHANGED <<selVars, itVars, scVars, fVars>>
    \/ Main_EndGap /\ UNCHANGED <<selVars, itVars, scVars, fVars>>
    \/ Main_Summary /\ UNCHANGED <<selVars, itVars, scVars, fVars>>

Spec == Init /\ [][Next]_vars


----------------------------------------------------------------------------
\* Properties of a run

SummaryLines == {i \in 1..Len(out) : out[i][1] = "summary"}
RunOver == pc \in {"done", "crashed"}
OutcomesOf(kind) == {i \in 1..Len(outcomes) : outcomes[i].kind = kind}
OutcomesFor(reason) == {i \in 1..Len(outcomes) : outcomes[i].reason = reason}
SumGapMiss(S) == SumSeq([k \in 1..Len(outcomes) |-> IF k \in S THEN outcomes[k].gap_miss ELSE 0])
SumReferenceTotal(S) ==
    SumSeq([k \in 1..Len(outcomes) |-> IF k \in S THEN outcomes[k].reference_total ELSE 0])

\* C1: every run that is not stopped by the symbol check (and is not the
\* self test) ends having printed the summary line exactly once
C1_RunEndsWithOneSummary ==
    (RunOver /\ ~args.self_test) => Cardinality(SummaryLines) = 1

\* C2: when the summary is printed every selected gap has exactly one
\* outcome, Inspected or Skipped for one of the three reasons, and the
\* summary's gaps = inspected + skipped with every Skipped outcome counted
C2_SummaryCountsEveryGap ==
    \A i \in SummaryLines :
        /\ Len(outcomes) = Len(rows)
        /\ \A k \in 1..Len(outcomes) :
              \/ outcomes[k].kind = "Inspected"
              \/ /\ outcomes[k].kind = "Skipped"
                 /\ outcomes[k].reason \in {"unresolvable-timestamp", "window-too-large", "missing-days"}
        /\ out[i][3] = Cardinality(OutcomesOf("Inspected"))
        /\ out[i][4] = Cardinality(OutcomesOf("Skipped"))
        /\ out[i][2] = out[i][3] + out[i][4]

\* C3: after every processed prefix of the gaps the two run totals are the
\* sums of gap_miss and of reference_total over the Inspected outcomes, and
\* the summary line prints exactly these sums
C3_TotalsAreSumsOverInspected ==
    /\ pos >= 1 =>
          /\ total_est_miss = SumGapMiss(OutcomesOf("Inspected"))
          /\ total_binance_trades = SumReferenceTotal(OutcomesOf("Inspected"))
    /\ \A i \in SummaryLines :
          /\ out[i][5] = SumGapMiss(OutcomesOf("Inspected"))
          /\ out[i][6] = SumReferenceTotal(OutcomesOf("Inspected"))

C3_Witness ==
    /\ SummaryLines # {}
    /\ OutcomesOf("Skipped") # {}
    /\ Cardinality(OutcomesOf("Inspected")) >= 2
    /\ total_binance_trades > 0
    /\ total_binance_trades # total_est_miss


\* the end timestamp and the number of calendar days of a selected row's window
RowEndTs(row) ==
    IF IsNone(row.gap_end_ts) THEN read_line_timestamp(FileAt(row.path), row.start_line)
    ELSE row.gap_end_ts
RowResolves(row) == ~IsNone(RowEndTs(row))
RowWindowDays(row) ==
    UtcDate(Val(RowEndTs(row))) - UtcDate(Val(RowEndTs(row)) - Val(row.gap_ms)) + 1
AtRow == pc = "rows" /\ pos <= Len(rows)

\* C4: a gap whose window covers more than 3 calendar days is handled in
\* one step that fetches and scans nothing, records Skipped(window-too-large),
\* adds exactly 1 to skipped and leaves inspected and both totals alone; and
\* no fetch is ever made for such a gap
C4_TooLargeWindowNeverScanned ==
    /\ [][ (AtRow /\ RowResolves(rows[pos]) /\ RowWindowDays(rows[pos]) > 3) =>
             /\ skipped' = skipped + 1
             /\ inspected' = inspected
             /\ total_est_miss' = total_est_miss
             /\ total_binance_trades' = total_binance_trades
             /\ fetched' = fetched /\ scanned' = scanned /\ cache' = cache
             /\ pc' = "rows" /\ pos' = pos + 1
             /\ Len(outcomes') = Len(outcomes) + 1
             /\ outcomes'[pos].kind = "Skipped"
             /\ outcomes'[pos].reason = "window-too-large" ]_vars
    /\ [](\A f \in fetched \cup scanned :
             RowResolves(rows[f[1]]) /\ RowWindowDays(rows[f[1]]) <= 3)

C4_Witness ==
    /\ \E k \in 1..Len(outcomes) :
          /\ outcomes[k].reason = "window-too-large"
          /\ outcomes[k].days = 4
          /\ RowWindowDays(rows[k]) = 4
    /\ \E k \in 1..Len(outcomes) : outcomes[k].days = 3 /\ outcomes[k].kind = "Inspected"
    /\ skipped >= 1
    /\ pc = "done"

\* the gaps at positions before pos have been dealt with, and so has the
\* gap at pos once the run is over
Settled(k) == k < pos \/ (k = pos /\ RunOver)
FetchFailedFor(k) == \E f \in fetched : f[1] = k /\ ~f[3]

\* C5: a gap with a failed day fetch has had every day of its list
\* attempted and has ended Skipped(missing-days), counted in skipped and
\* adding nothing to the totals
C5_FailedDaySkipsGapAfterAllDays ==
    \A k \in 1..Len(rows) :
        (Settled(k) /\ FetchFailedFor(k)) =>
            /\ k <= Len(outcomes)
            /\ outcomes[k].kind = "Skipped"
            /\ outcomes[k].reason = "missing-days"
            /\ outcomes[k].reference_total = 0
            /\ Cardinality({f \in fetched : f[1] = k}) = RowWindowDays(rows[k])
            /\ skipped >= Cardinality(OutcomesFor("missing-days"))

\* C10: every resolved window has end_ms >= start_ms and at least one day,
\* and every Inspected gap had a day fetched and scanned
C10_InspectedGapHadADay ==
    /\ pc = "days" => (gap.end_ms >= gap.start_ms /\ Len(gap.dates) >= 1)
    /\ \A k \in OutcomesOf("Inspected") :
          /\ outcomes[k].days >= 1
          /\ \E f \in scanned : f[1] = k


----------------------------------------------------------------------------
\* Specification of iter_dates on its own: any two timestamps near midnights

MaxDayIndex == 2

TsSamples == {Day(k) + o : k \in (0 - MaxDayIndex)..MaxDayIndex, o \in {0, 500, MsPerDay - 500}}

ItInit ==
    /\ it_start \in TsSamples /\ it_end \in TsSamples /\ it_dates = None
    /\ MainIdle /\ SelIdle /\ ScIdle /\ FIdle

\* dates = list(iter_dates(start_ms, end_ms))
It_Call ==
    /\ IsNone(it_dates)
    /\ it_dates' = Some(iter_dates(it_start, it_end))
    /\ UNCHANGED <<it_start, it_end, mainVars, selVars, scVars, fVars>>

ItNext == It_Call

SpecDates == ItInit /\ [][ItNext]_vars

\* the calendar, written out: the day after <<y, m, d>>
DaysInMonth(y, m) ==
    IF m = 2 THEN (IF (y % 4 = 0 /\ y % 100 # 0) \/ y % 400 = 0 THEN 29 ELSE 28)
    ELSE IF m \in {4, 6, 9, 11} THEN 30 ELSE 31
NextCivilDay(d) ==
    IF d[3] < DaysInMonth(d[1], d[2]) THEN <<d[1], d[2], d[3] + 1>>
    ELSE IF d[2] < 12 THEN <<d[1], d[2] + 1, 1>>
    ELSE <<d[1] + 1, 1, 1>>

\* C8: for start_ms <= end_ms the list runs from the UTC day of start_ms
\* to the UTC day of end_ms, each entry the calendar day after the one
\* before it; one entry inside a UTC day, two across one midnight
C8_DatesCoverWindow ==
    (~IsNone(it_dates) /\ it_start <= it_end) =>
        LET d == Val(it_dates)
        IN  /\ Len(d) >= 1
            /\ d[1] = Strftime(UtcDate(it_start))
            /\ d[Len(d)] = Strftime(UtcDate(it_end))
            /\ \A i \in 1..(Len(d) - 1) : d[i + 1] = NextCivilDay(d[i])
            /\ \A i, j \in 1..Len(d) : i # j => d[i] # d[j]
            /\ (it_start <= 0 /\ 0 <= it_end) => \E i \in 1..Len(d) : d[i] = <<1970, 1, 1>>
            /\ (it_start < 0 /\ 0 <= it_end /\ it_start >= 0 - MsPerDay) => d[1] = <<1969, 12, 31>>
            /\ (it_start \div MsPerDay = it_end \div MsPerDay) => Len(d) = 1
            /\ (it_start \div MsPerDay + 1 = it_end \div MsPerDay) => Len(d) = 2

C8_Witness ==
    /\ ~IsNone(it_dates)
    /\ it_start = 0 - 500 /\ it_end = 500
    /\ Val(it_dates) = << <<1969, 12, 31>>, <<1970, 1, 1>> >>

----------------------------------------------------------------------------
\* Specification of scan_zip_for_window on its own, one line at a time

MaxRows == 4

ScanTimes == {100, 200, 300, 400}
ScanFile == {TradeLine("trades", 1, t) : t \in ScanTimes}
                \cup { JoinComma(<<Str(7), <<"9">>>>) \o <<"\n">>,
                       JoinComma(<< <<"i">>, <<"p">>, <<"q">>, <<"q">>, <<"t">>, <<"m">> >>) \o <<"\n">> }

\* the timestamp a line carries at ts_index, None for a short or unparseable line
LineTs(line, ts_index) ==
    LET parts == SplitComma(RStrip(line))
    IN  IF Len(parts) < ts_index + 1 THEN None ELSE ParseInt(parts[ts_index + 1])

NonDecreasing(lines, ts_index) ==
    \A i, j \in 1..Len(lines) :
        (i < j /\ ~IsNone(LineTs(lines[i], ts_index)) /\ ~IsNone(LineTs(lines[j], ts_index)))
            => Val(LineTs(lines[i], ts_index)) <= Val(LineTs(lines[j], ts_index))

ScInit ==
    /\ sc_ts_index = DATASET_TS_INDEX("spot-trades")
    /\ sc_rows \in UNION {[1..n -> ScanFile] : n \in 0..MaxRows}
    /\ NonDecreasing(sc_rows, sc_ts_index)
    /\ sc_start \in {150, 200}
    /\ sc_end \in {100, 300, 350}
    /\ sc_state = ScanStart
    /\ MainIdle /\ SelIdle /\ ItIdle /\ FIdle

\* for line in text: ...
Sc_Line ==
    /\ ~sc_state.done
    /\ sc_state.read < Len(sc_rows)
    /\ sc_state' = ScanLine(sc_state, sc_rows[sc_state.read + 1], sc_start, sc_end, sc_ts_index)
    /\ UNCHANGED <<sc_rows, sc_start, sc_end, sc_ts_index, mainVars, selVars, itVars, fVars>>

ScNext == Sc_Line

SpecScan == ScInit /\ [][ScNext]_vars

ScTs(i) == LineTs(sc_rows[i], sc_ts_index)
ScInWindow == {i \in 1..Len(sc_rows) : ~IsNone(ScTs(i)) /\ sc_start <= Val(ScTs(i)) /\ Val(ScTs(i)) <= sc_end}
ScPast == {i \in 1..Len(sc_rows) : ~IsNone(ScTs(i)) /\ Val(ScTs(i)) > sc_end}
ScFinished == sc_state.done \/ sc_state.read = Len(sc_rows)

\* C9: over non-decreasing rows the finished scan has counted exactly the
\* rows whose timestamp parses and lies in [start_ms, end_ms], first and
\* last hit are the smallest and largest of these (None when there are
\* none), and reading never goes past the first row above end_ms
C9_ScanCountsWindowRows ==
    /\ \A i \in ScPast : sc_state.read <= i
    /\ ScFinished =>
          /\ sc_state.count = Cardinality(ScInWindow)
          /\ (ScInWindow = {} => IsNone(sc_state.first_ts) /\ IsNone(sc_state.last_ts))
          /\ (ScInWindow # {} =>
                /\ ~IsNone(sc_state.first_ts) /\ ~IsNone(sc_state.last_ts)
                /\ \E i \in ScInWindow : Val(ScTs(i)) = Val(sc_state.first_ts)
                /\ \E i \in ScInWindow : Val(ScTs(i)) = Val(sc_state.last_ts)
                /\ \A i \in ScInWindow : Val(sc_state.first_ts) <= Val(ScTs(i))
                /\ \A i \in ScInWindow : Val(ScTs(i)) <= Val(sc_state.last_ts))
          /\ (ScPast # {} => sc_state.done /\ sc_state.read \in ScPast)
          /\ (ScPast = {} => sc_state.read = Len(sc_rows))

C9_Witness ==
    /\ sc_rows = [i \in 1..4 |-> TradeLine("trades", 1, 100 * i)]
    /\ sc_start = 150 /\ sc_end = 350
    /\ sc_state = [count |-> 2, first_ts |-> Some(200), last_ts |-> Some(300),
                   read |-> 4, done |-> TRUE]


----------------------------------------------------------------------------
\* Specification of the selector on its own: the same query run again on
\* the same index, each run in a fresh process

MaxEvents == 4
MaxPool == 3
MaxRuns == 2

\* index rows with equal gap_miss values, NULL columns and other event types
EventRow(id) ==
    [id |-> id,
     event_type |-> IF id % 5 = 0 THEN "file" ELSE "gap",
     collector |-> "main", exchange |-> "BINANCE", symbol |-> "BTCUSDT",
     path |-> "2021/a.gz", start_line |-> id,
     gap_ms |-> IF id % 7 = 0 THEN None ELSE Some(100 + ((id * 100) % 300)),
     gap_miss |-> IF id % 4 = 0 THEN None ELSE Some(IF id % 2 = 1 THEN 5 ELSE 3),
     gap_end_ts |-> Some(1000 * id)]

SelQueries ==
    { Query(o, l, f, p, s, m, None, None, "spot-trades", FALSE) :
        o \in Orders, l \in 0..MaxLimit, f \in (0 - 1)..MaxOffset, p \in (0 - 1)..MaxPool,
        s \in 0..MaxSeed, m \in {0} }

\* the state of the process-wide generator of the random module, which a
\* new process seeds from the operating system
ProcessRngStates == {1, 2}

SelInit ==
    /\ sel_index \in SUBSET {EventRow(id) : id \in 1..MaxEvents}
    /\ sel_args \in SelQueries
    /\ sel_results = <<>>
    /\ global_rng \in ProcessRngStates
    /\ MainIdle /\ ItIdle /\ ScIdle /\ FIdle

\* rows = iter_gap_rows(conn, args), then the process ends
Sel_Run ==
    /\ Len(sel_results) < MaxRuns
    /\ sel_results' = Append(sel_results, iter_gap_rows(sel_index, sel_args))
    /\ global_rng' \in ProcessRngStates
    /\ UNCHANGED <<sel_index, sel_args, mainVars, itVars, scVars, fVars>>

SelNext == Sel_Run

SpecSelect == SelInit /\ [][SelNext]_vars

\* the eligible rows, best gap_miss first, cut to the pool size, and what
\* is left of them after the first offset entries
SelEligible ==
    {r \in sel_index : r.event_type = "gap" /\ ~IsNone(r.gap_ms) /\ ~IsNone(r.gap_miss)}
SelPool ==
    {r \in SelEligible :
        Cardinality({q \in SelEligible :
            Val(q.gap_miss) > Val(r.gap_miss) \/ (Val(q.gap_miss) = Val(r.gap_miss) /\ q.id < r.id)})
        < (IF sel_args.pool < 0 THEN Cardinality(SelEligible) ELSE sel_args.pool)}
SelPoolAfterOffset ==
    {r \in SelPool :
        Cardinality({q \in SelPool :
            Val(q.gap_miss) > Val(r.gap_miss) \/ (Val(q.gap_miss) = Val(r.gap_miss) /\ q.id < r.id)})
        >= sel_args.offset}

\* C6: in random mode with limit > 0 a run returns at most
\* min(limit, size of the pool after the offset) rows, no row twice, every
\* row from the pool after the offset
C6_RandomSampleWithinPool ==
    (sel_args.order = "random" /\ sel_args.limit > 0) =>
        \A k \in 1..Len(sel_results) :
            LET res == sel_results[k]
            IN  /\ Len(res) <= Min2(sel_args.limit, Cardinality(SelPoolAfterOffset))
                /\ \A i, j \in 1..Len(res) : i # j => res[i] # res[j]
                /\ Range(res) \subseteq SelPoolAfterOffset

C6_Witness ==
    /\ sel_args.order = "random" /\ sel_args.limit = 2 /\ sel_args.offset = 1
    /\ Cardinality(SelPool) = 3
    /\ Len(sel_results) >= 1
    /\ Len(sel_results[1]) = 2

----------------------------------------------------------------------------
\* Specification of the fetcher on its own: fetches, by either tool and in
\* any number of runs, that share one cache directory

MaxFetches == 3
MaxFetchDay == 1

FInit ==
    /\ f_cache = EmptyCache /\ f_last = None /\ f_count = 0
    /\ MainIdle /\ SelIdle /\ ItIdle /\ ScIdle

\* url = url_template.format(symbol=..., date=day); zip_path = download_zip(url, cache_dir)
F_Fetch ==
    /\ f_count < MaxFetches
    /\ \E dataset \in Datasets, day \in 0..MaxFetchDay :
          LET url == DATASET_URLS(dataset, "BTCUSDT", Strftime(day))
          IN  \E net \in IF FileName(url) \in DOMAIN f_cache THEN {"ok"} ELSE NetOutcomes :
                  LET dl == download_zip(url, f_cache, net, Published(url))
                  IN  /\ f_cache' = dl.cache
                      /\ f_last' = Some([dataset |-> dataset, url |-> url, result |-> dl.result])
    /\ f_count' = f_count + 1
    /\ UNCHANGED <<mainVars, selVars, itVars, scVars>>

FNext == F_Fetch

SpecFetch == FInit /\ [][FNext]_vars

\* C11: the archive a fetch returns for (dataset, symbol, day) holds what is
\* published at that dataset's URL for that symbol and day, whatever was
\* fetched into the cache directory before (stated for the archives that
\* open; a file cut short by a failed download is the matter of C12)
C11_FetchReturnsOwnDataset ==
    (~IsNone(f_last) /\ ~IsNone(Val(f_last).result)) =>
        LET archive == f_cache[Val(Val(f_last).result)]
        IN  ZipOpens(archive) => archive = Published(Val(f_last).url)

\* C12: after a fetch has returned "unavailable" the cache directory holds
\* no entry under that archive's name
C12_FailedFetchLeavesNoEntry ==
    (~IsNone(f_last) /\ IsNone(Val(f_last).result)) =>
        FileName(Val(f_last).url) \notin DOMAIN f_cache


====
